---- MODULE Spec2Model ----
(***************************************************************************)
(* Model of the query-routing assistant: classifier, router                *)
(* (smart_answer), per-session history store (ChatHistory) and the         *)
(* singletons they use.                                                    *)
(*                                                                         *)
(* The history store is a directory of JSON files shared by every worker   *)
(* process that serves the API; ChatHistory takes no lock, so the file     *)
(* operations of two workers interleave at the granularity of one file     *)
(* system call (exists / read / write / unlink).  Inside one worker a      *)
(* request runs to completion (the endpoints call smart_answer             *)
(* synchronously), so a worker is one sequential process.                  *)
(*                                                                         *)
(* A file write (open "w" + json.dump) is taken as one atomic replacement  *)
(* of the file's content.                                                  *)
(***************************************************************************)
EXTENDS Integers, Sequences, FiniteSets, TLC

(***************************************************************************)
(* Bounds of the model.                                                    *)
(***************************************************************************)
MaxRequests == 2
MaxClock == 2
MaxParts == 2
MaxOps == 4
MaxLimit == 2
MaxRetries == 4
MaxCourses == 3
MaxTurns == 5

(* worker processes serving the API over one storage directory *)
Workers == {"w1", "w2"}

(* session ids a caller may supply; NoSession is Python's None             *)
SessionIds == {"s1", "s2"}
NoSession == "None"
FileIds == SessionIds \cup {NoSession}

(* The query text is opaque to the program (the category comes from the   *)
(* backend's reply, not from the text): the n-th request received carries  *)
(* the query n, so that every stored turn can be told from the others; 0  *)
(* stands for "no request".                                                *)
Answers == {"a1"}

(***************************************************************************)
(* Text.  A string is a sequence of one-character strings.                 *)
(***************************************************************************)
Upper == [A |-> "a", B |-> "b", C |-> "c", D |-> "d", E |-> "e", F |-> "f",
          G |-> "g", H |-> "h", I |-> "i", J |-> "j", K |-> "k", L |-> "l",
          M |-> "m", N |-> "n", O |-> "o", P |-> "p", Q |-> "q", R |-> "r",
          S |-> "s", T |-> "t", U |-> "u", V |-> "v", W |-> "w", X |-> "x",
          Y |-> "y", Z |-> "z"]

(* str.lower() on one character *)
LowerChar(c) == IF c \in DOMAIN Upper THEN Upper[c] ELSE c

(* str.lower() *)
Lower(s) == [i \in 1..Len(s) |-> LowerChar(s[i])]

Whitespace == {" ", "\n"}

RECURSIVE LStrip(_)
LStrip(s) == IF s # <<>> /\ Head(s) \in Whitespace THEN LStrip(Tail(s)) ELSE s

RECURSIVE RStrip(_)
RStrip(s) ==
    IF s # <<>> /\ s[Len(s)] \in Whitespace
    THEN RStrip(SubSeq(s, 1, Len(s) - 1))
    ELSE s

(* str.strip() *)
Strip(s) == RStrip(LStrip(s))

(* Python's  sub in s  *)
Contains(s, sub) ==
    \E i \in 1..(Len(s) - Len(sub) + 1) : SubSeq(s, i, i + Len(sub) - 1) = sub

RECURSIVE Concat(_)
Concat(parts) == IF parts = <<>> THEN <<>> ELSE Head(parts) \o Concat(Tail(parts))

KwTracking == <<"t", "r", "a", "c", "k", "i", "n", "g">>
KwRecommendation ==
    <<"r", "e", "c", "o", "m", "m", "e", "n", "d", "a", "t", "i", "o", "n">>
KwLearning == <<"l", "e", "a", "r", "n", "i", "n", "g">>

(* pieces the backend's raw reply is assembled from *)
Fragments ==
    { KwTracking,
      <<"T", "R", "A", "C", "K", "I", "N", "G">>,
      <<"T", "r", "a", "c", "k">>,
      <<"i", "n", "g">>,
      KwRecommendation,
      <<"R", "e", "c", "o", "m", "m", "e", "n", "d">>,
      <<"A", "T", "I", "O", "N">>,
      KwLearning,
      <<" ">>,
      <<"\n">>,
      <<"?">> }

RECURSIVE SeqsUpTo(_, _)
SeqsUpTo(S, n) ==
    IF n = 0 THEN {<<>>}
    ELSE LET shorter == SeqsUpTo(S, n - 1)
         IN shorter \cup {Append(q, x) : q \in shorter, x \in S}

(* raw replies of the backend to the classification prompt, as part lists *)
Responses == SeqsUpTo(Fragments, MaxParts)

Categories == {"tracking", "recommendation", "learning"}

(***************************************************************************)
(* classifier.py: classify_query, the parsing of the backend's reply.      *)
(***************************************************************************)
ParsePreferRecommendation(raw) ==
    LET response == Lower(Strip(raw))
    IN IF Contains(response, KwRecommendation) THEN "recommendation"
       ELSE IF Contains(response, KwTracking) THEN "tracking"
       ELSE "learning"

ParseNoFallback(raw) ==
    LET response == Lower(Strip(raw))
    IN IF Contains(response, KwTracking) THEN "tracking"
       ELSE IF Contains(response, KwRecommendation) THEN "recommendation"
       ELSE IF Contains(response, KwLearning) THEN "learning"
       ELSE "unknown"

ParseResponse(raw) ==
    LET response == Lower(Strip(raw))
    IN IF Contains(response, KwTracking) THEN "tracking"
       ELSE IF Contains(response, KwRecommendation) THEN "recommendation"
       ELSE "learning"

(***************************************************************************)
(* history.py: the session record and the pieces of save_message.          *)
(* A session file is a record; exists = FALSE stands for "no such file".   *)
(* Time stamps are readings of the clock  now  (>= 1); 0 in last_updated   *)
(* stands for a dict that has no "last_updated" key yet.                   *)
(***************************************************************************)
NoFile ==
    [exists |-> FALSE, session_id |-> NoSession, created_at |-> 0,
     messages |-> <<>>, last_updated |-> 0]

(* Python truthiness of an Optional[str] session id *)
Truthy(sid) == sid # NoSession

(* session_file.exists() *)
SessionFileExists(fs, sid) == fs[sid].exists

(* the dict built when the session file is absent *)
NewHistory(sid, t) ==
    [exists |-> TRUE, session_id |-> sid, created_at |-> t,
     messages |-> <<>>, last_updated |-> 0]

MessageWrongType(t, q, a, ty) ==
    [timestamp |-> t, query |-> q, answer |-> a, type |-> "learning"]

(* the message dict of save_message *)
Message(t, q, a, ty) ==
    [timestamp |-> t, query |-> q, answer |-> a, type |-> ty]

(* history["messages"].append(message); history["last_updated"] = now *)
AddMessage(h, msg, t) ==
    [h EXCEPT !.messages = Append(@, msg), !.last_updated = t]

WriteFileShared(fs, sid, h) == [f \in DOMAIN fs |-> IF f \in SessionIds THEN h ELSE fs[f]]

(* open(session_file, "w") + json.dump *)
WriteFile(fs, sid, h) == [fs EXCEPT ![sid] = h]

(* session_file.unlink() *)
Unlink(fs, sid) == [fs EXCEPT ![sid] = NoFile]

(* Optional[int]: <<>> is None, <<k>> is the integer k *)
NoLimit == <<>>

(* Python's  messages[-limit:]  for limit # 0 *)
SliceLast(messages, limit) ==
    LET n == Len(messages)
        start == IF limit > 0
                 THEN (IF n - limit > 0 THEN n - limit ELSE 0)
                 ELSE (IF -limit < n THEN -limit ELSE n)
    IN SubSeq(messages, start + 1, n)

get_history_unknown_nonempty(fs, sid, limit) ==
    IF ~SessionFileExists(fs, sid) THEN <<Message(0, 0, "a1", "learning")>>
    ELSE fs[sid].messages

(* ChatHistory.get_history *)
get_history(fs, sid, limit) ==
    IF ~SessionFileExists(fs, sid) THEN <<>>
    ELSE LET messages == fs[sid].messages
         IN IF limit # NoLimit /\ limit[1] # 0
            THEN SliceLast(messages, limit[1])
            ELSE messages

(***************************************************************************)
(* pipeline.py: control flow of smart_answer.  A step that raises leaves   *)
(* smart_answer at once (no try/except), see Raise below.                  *)
(***************************************************************************)
NextPcSaveFirst(cur, qt, sid) ==
    CASE cur = "classify" -> IF Truthy(sid) THEN "save"
                             ELSE IF qt = "tracking" THEN "get_tracker" ELSE "context"
      [] cur = "save" -> IF qt = "tracking" THEN "get_tracker" ELSE "context"
      [] cur = "get_tracker" -> "context"
      [] cur = "context" -> "answer"
      [] OTHER -> "done"

NextPcAlwaysSave(cur, qt, sid) ==
    CASE cur = "classify" -> IF qt = "tracking" THEN "get_tracker" ELSE "context"
      [] cur = "get_tracker" -> "context"
      [] cur = "context" -> "answer"
      [] cur = "answer" -> "save"
      [] OTHER -> "done"

NextPc(cur, qt, sid) ==
    CASE cur = "classify" -> IF qt = "tracking" THEN "get_tracker" ELSE "context"
      [] cur = "get_tracker" -> "context"
      [] cur = "context" -> "answer"
      [] cur = "answer" -> IF Truthy(sid) THEN "save" ELSE "done"
      [] OTHER -> "done"

(* which context provider the branch of smart_answer taken for qt uses *)
Handler(qt) ==
    IF qt = "tracking" THEN "progress"
    ELSE IF qt = "recommendation" THEN "catalog"
    ELSE "none"

(* number of past turns the three handlers ask the window renderer for *)
WindowTurns == 3

ConversationWindowAll(fs, sid) ==
    IF Truthy(sid) THEN get_history(fs, sid, NoLimit) ELSE <<>>

(* the messages get_conversation_context(session_id, last_n=3) renders for *)
(* a handler; without a session id the handlers skip the call              *)
ConversationWindow(fs, sid) ==
    IF Truthy(sid) THEN get_history(fs, sid, <<WindowTurns>>) ELSE <<>>

(* the data behind the handler's context block: the progress the tracker   *)
(* object holds, the course catalog, or nothing for a learning query       *)
ContextData(qt, tr) ==
    IF qt = "tracking" THEN tr.data
    ELSE IF qt = "recommendation" THEN "catalog"
    ELSE "none"

(* the dict smart_answer returns *)
Result(q, a, qt, sid) == [answer |-> a, type |-> qt, session_id |-> sid]

(* outcomes of one ask_llm call: a text, or one of the errors it raises *)
LlmErrors == {"ValueError", "RuntimeError"}

(***************************************************************************)
(* State.                                                                  *)
(***************************************************************************)
VARIABLES
    files,        \* the storage directory: file id -> session record
    now,          \* the wall clock read by datetime.now()
    apiData,      \* what the progress API currently serves
    pc,           \* per worker: where its request stands
    query,        \* per worker: the request's query
    session_id,   \* per worker: the request's session id
    query_type,   \* per worker: the classifier's result
    answer,       \* per worker: the answer obtained
    handler,      \* per worker: the context provider used
    history,      \* per worker: save_message's local  history  dict
    error,        \* per worker: the exception that ended the request
    events,       \* per worker: external calls of the request, in order
    tracker,      \* per worker process: the _tracker singleton
    started,      \* number of requests received so far
    appended,     \* per session: messages whose save_message returned
    lastOp,       \* store client: last operation performed
    lastArgs,     \* store client: its arguments
    lastResult,   \* store client: what it returned
    ops,          \* store client: operations performed so far
    http,         \* store client: HTTP status of the last endpoint call
    listed,       \* store client: what the last list_sessions call gave
    deleted_count, \* store client: what the last DELETE /history reported
    response,     \* classifier harness: the raw reply, as parts
    classified,   \* classifier harness: classify_query's result
    rendered,     \* what the last get_conversation_context call returned
    llm,          \* the ask_llm call in progress, and its outcome
    catalog,      \* DataLoader._courses: the cached course list
    recCall,      \* recommendation engine: the last call and its arguments
    recResult,    \* recommendation engine: what that call produced
    window,       \* per worker: the past turns given to the window renderer
    context,      \* per worker: the data the handler put in its context block
    report        \* the statistics of the last progress context built

vars ==
    <<files, now, apiData, pc, query, session_id, query_type, answer, handler,
      history, error, events, tracker, started, appended, lastOp, lastArgs,
      lastResult, ops, http, listed, deleted_count, response, classified,
      rendered, llm,
      catalog, recCall, recResult, window, context, report>>

reqVars ==
    <<pc, query, session_id, query_type, answer, handler, history, error,
      events, started>>
clientVars == <<lastOp, lastArgs, lastResult, ops, http, listed, deleted_count>>
catalogVars == <<catalog, recCall, recResult>>
promptVars == <<window, context>>
progressVars == <<report>>
harnessVars ==
    <<response, classified, rendered, llm, catalogVars, promptVars, progressVars>>

NoTracker == [loaded |-> FALSE, data |-> "none"]
NoArgs == [sid |-> NoSession, limit |-> NoLimit]
NoResult == [messages |-> <<>>, deleted |-> FALSE]
NoListing == [error |-> "none", sessions |-> <<>>]
NoRender == [parts |-> <<>>, text |-> <<>>]
NotLoaded == [loaded |-> FALSE, courses |-> <<>>, loaded_as |-> <<>>]
NoRecCall == [op |-> "none", learning_path_name |-> <<>>, course_level |-> 0, limit |-> 0]
NoPercent == [whole |-> 0, frac |-> <<>>]
NoReport ==
    [built |-> FALSE, courses |-> <<>>, total_courses |-> 0, completed_courses |-> 0,
     in_progress_courses |-> 0, not_started |-> 0, avg_progress |-> NoPercent,
     remaining_percent |-> NoPercent]
NoCall ==
    [pc |-> "idle", max_retries |-> 0, attempt |-> 0, log |-> <<>>,
     raised |-> "none", message |-> "none", returned |-> "none"]

(* the workers, the clock and the callers before anything has happened *)
InitProcess ==
    /\ now = 1
    /\ apiData = "v1"
    /\ pc = [p \in Workers |-> "idle"]
    /\ query = [p \in Workers |-> 0]
    /\ session_id = [p \in Workers |-> NoSession]
    /\ query_type = [p \in Workers |-> "none"]
    /\ answer = [p \in Workers |-> "none"]
    /\ handler = [p \in Workers |-> "unset"]
    /\ history = [p \in Workers |-> NoFile]
    /\ error = [p \in Workers |-> "none"]
    /\ events = [p \in Workers |-> <<>>]
    /\ tracker = [p \in Workers |-> NoTracker]
    /\ started = 0
    /\ lastOp = "none"
    /\ lastArgs = NoArgs
    /\ lastResult = NoResult
    /\ ops = 0
    /\ http = 0
    /\ listed = NoListing
    /\ deleted_count = 0
    /\ rendered = NoRender
    /\ llm = NoCall
    /\ catalog = NotLoaded
    /\ recCall = NoRecCall
    /\ recResult = <<>>
    /\ window = [p \in Workers |-> <<>>]
    /\ context = [p \in Workers |-> "none"]
    /\ report = NoReport

(* ChatHistory.__init__ on a storage directory that did not exist *)
InitCommon ==
    /\ files = [f \in FileIds |-> NoFile]
    /\ appended = [f \in FileIds |-> <<>>]
    /\ InitProcess

Init ==
    /\ InitCommon
    /\ response = <<>>
    /\ classified = "unset"

(***************************************************************************)
(* Helpers on the per-worker state.                                        *)
(***************************************************************************)
Last(q) == q[Len(q)]

Log(p, evs) == events' = [events EXCEPT ![p] = @ \o evs]

(* an exception leaves smart_answer: the request ends with that error *)
Raise(p, e) ==
    /\ pc' = [pc EXCEPT ![p] = "failed"]
    /\ error' = [error EXCEPT ![p] = e]

Goto(p, cur) ==
    pc' = [pc EXCEPT ![p] = NextPc(cur, query_type'[p], session_id[p])]

(* replies of the backend to the classification prompt used by requests *)
RequestReplies == SeqsUpTo(Fragments, 1)

(***************************************************************************)
(* pipeline.py smart_answer is entered: by POST /chat with the caller's    *)
(* (or a generated) session id, or by a direct call with session_id=None.  *)
(***************************************************************************)
Receive(p) ==
    /\ pc[p] = "idle"
    /\ started < MaxRequests
    /\ query' = [query EXCEPT ![p] = started + 1]
    /\ \E sid \in FileIds : session_id' = [session_id EXCEPT ![p] = sid]
    /\ pc' = [pc EXCEPT ![p] = "classify"]
    /\ started' = started + 1
    /\ UNCHANGED <<files, now, apiData, query_type, answer, handler, history,
                   error, events, tracker, appended, clientVars, harnessVars>>

(* classifier.py classify_query: one ask_llm call, then the parsing *)
classify_query(p) ==
    /\ pc[p] = "classify"
    /\ Log(p, <<"classify_llm">>)
    /\ \/ /\ \E parts \in RequestReplies :
                query_type' = [query_type EXCEPT ![p] = ParseResponse(Concat(parts))]
          /\ Goto(p, "classify")
          /\ UNCHANGED error
       \/ /\ \E e \in LlmErrors \cup {"FileNotFoundError"} : Raise(p, e)
          /\ UNCHANGED query_type
    /\ UNCHANGED <<files, now, apiData, query, session_id, answer, handler,
                   history, tracker, started, appended, clientVars, harnessVars>>

(* what ProgressTracker.__init__ raises: the API is unreachable, the user   *)
(* (or the configuration) is missing, or anything else went wrong          *)
FetchErrors == {"ConnectionError", "ValueError", "RuntimeError"}

TrackerCachesFailure(tr) == [loaded |-> TRUE, data |-> "none"]

(* _tracker = ProgressTracker() assigns only when the constructor returns: *)
(* after a raise the global is what it was                                 *)
TrackerAfterFailure(tr) == tr

(* tracking.py get_tracker: the singleton is built, and the progress       *)
(* fetched, only while _tracker is None                                    *)
get_tracker(p) ==
    /\ pc[p] = "get_tracker"
    /\ IF tracker[p].loaded
       THEN /\ Goto(p, "get_tracker")
            /\ UNCHANGED <<tracker, error, events>>
       ELSE /\ Log(p, <<"fetch_progress">>)
            /\ \/ /\ tracker' = [tracker EXCEPT ![p] = [loaded |-> TRUE, data |-> apiData]]
                  /\ Goto(p, "get_tracker")
                  /\ UNCHANGED error
               \/ /\ \E e \in FetchErrors : Raise(p, e)
                  /\ tracker' = [tracker EXCEPT ![p] = TrackerAfterFailure(@)]
    /\ UNCHANGED <<files, now, apiData, query, session_id, query_type, answer,
                   handler, history, started, appended, clientVars, harnessVars>>

(* the handlers up to their ask_llm call: conversation window (only with   *)
(* a session id), context block, system prompt                             *)
BuildContext(p) ==
    /\ pc[p] = "context"
    /\ handler' = [handler EXCEPT ![p] = Handler(query_type[p])]
    /\ window' = [window EXCEPT ![p] = ConversationWindow(files, session_id[p])]
    /\ context' = [context EXCEPT ![p] = ContextData(query_type[p], tracker[p])]
    /\ Log(p, (IF Truthy(session_id[p]) THEN <<"window">> ELSE <<>>)
              \o (IF Handler(query_type[p]) # "none" THEN <<"context">> ELSE <<>>))
    /\ \/ /\ Goto(p, "context")
          /\ UNCHANGED error
       \/ Raise(p, "FileNotFoundError")
    /\ UNCHANGED <<files, now, apiData, query, session_id, query_type, answer,
                   history, tracker, started, appended, clientVars, response,
                   classified, rendered, llm, catalogVars, progressVars>>

(* the handlers' ask_llm call *)
AskAnswer(p) ==
    /\ pc[p] = "answer"
    /\ Log(p, <<"answer_llm">>)
    /\ \/ /\ \E a \in Answers : answer' = [answer EXCEPT ![p] = a]
          /\ Goto(p, "answer")
          /\ UNCHANGED error
       \/ /\ \E e \in LlmErrors : Raise(p, e)
          /\ UNCHANGED answer
    /\ UNCHANGED <<files, now, apiData, query, session_id, query_type, handler,
                   history, tracker, started, appended, clientVars, harnessVars>>

(***************************************************************************)
(* history.py save_message, one file system call per step.                 *)
(***************************************************************************)
(* session_file.exists(), and the new dict when it does not *)
SaveExists(p) ==
    /\ pc[p] = "save"
    /\ IF SessionFileExists(files, session_id[p])
       THEN /\ pc' = [pc EXCEPT ![p] = "save_read"]
            /\ UNCHANGED history
       ELSE /\ pc' = [pc EXCEPT ![p] = "stamp"]
            /\ history' = [history EXCEPT ![p] = NewHistory(session_id[p], now)]
    /\ UNCHANGED <<files, now, apiData, query, session_id, query_type, answer,
                   handler, error, events, tracker, started, appended,
                   clientVars, harnessVars>>

(* open(session_file, "r") + json.load; the file may be gone by now *)
SaveRead(p) ==
    /\ pc[p] = "save_read"
    /\ IF SessionFileExists(files, session_id[p])
       THEN /\ history' = [history EXCEPT ![p] = files[session_id[p]]]
            /\ pc' = [pc EXCEPT ![p] = "stamp"]
            /\ UNCHANGED error
       ELSE /\ Raise(p, "FileNotFoundError")
            /\ UNCHANGED history
    /\ UNCHANGED <<files, now, apiData, query, session_id, query_type, answer,
                   handler, events, tracker, started, appended, clientVars,
                   harnessVars>>

(* the message is built and appended to the local dict; the clock         *)
(* readings of "timestamp" and "last_updated" are taken in this one step   *)
SaveStamp(p) ==
    /\ pc[p] = "stamp"
    /\ history' = [history EXCEPT ![p] =
          AddMessage(@, Message(now, query[p], answer[p], query_type[p]), now)]
    /\ pc' = [pc EXCEPT ![p] = "write"]
    /\ UNCHANGED <<files, now, apiData, query, session_id, query_type, answer,
                   handler, error, events, tracker, started, appended,
                   clientVars, harnessVars>>

(* the local dict replaces the file; save_message returns *)
SaveWrite(p) ==
    /\ pc[p] = "write"
    /\ files' = WriteFile(files, session_id[p], history[p])
    /\ appended' = [appended EXCEPT ![session_id[p]] = Append(@, Last(history[p].messages))]
    /\ Log(p, <<"append">>)
    /\ pc' = [pc EXCEPT ![p] = NextPc("save", query_type[p], session_id[p])]
    /\ UNCHANGED <<now, apiData, query, session_id, query_type, answer, handler,
                   history, error, tracker, started, clientVars, harnessVars>>

(* the response (or the HTTP 500) is sent; the worker is free again *)
Return(p) ==
    /\ pc[p] \in {"done", "failed"}
    /\ pc' = [pc EXCEPT ![p] = "idle"]
    /\ query' = [query EXCEPT ![p] = 0]
    /\ session_id' = [session_id EXCEPT ![p] = NoSession]
    /\ query_type' = [query_type EXCEPT ![p] = "none"]
    /\ answer' = [answer EXCEPT ![p] = "none"]
    /\ handler' = [handler EXCEPT ![p] = "unset"]
    /\ history' = [history EXCEPT ![p] = NoFile]
    /\ error' = [error EXCEPT ![p] = "none"]
    /\ events' = [events EXCEPT ![p] = <<>>]
    /\ window' = [window EXCEPT ![p] = <<>>]
    /\ context' = [context EXCEPT ![p] = "none"]
    /\ UNCHANGED <<files, now, apiData, tracker, started, appended, clientVars,
                   response, classified, rendered, llm, catalogVars, progressVars>>

clear_session_keeps_file(fs, sid) ==
    [files |-> fs, deleted |-> SessionFileExists(fs, sid)]

(* ChatHistory.clear_session: [files after, value returned] *)
clear_session(fs, sid) ==
    IF SessionFileExists(fs, sid)
    THEN [files |-> Unlink(fs, sid), deleted |-> TRUE]
    ELSE [files |-> fs, deleted |-> FALSE]

(* DELETE /history/{session_id} served while requests are in flight *)
ClearSession(sid) ==
    /\ SessionFileExists(files, sid)
    /\ files' = clear_session(files, sid).files
    /\ appended' = [appended EXCEPT ![sid] = <<>>]
    /\ UNCHANGED <<now, apiData, reqVars, tracker, clientVars, harnessVars>>

(* time passes *)
Tick ==
    /\ now < MaxClock
    /\ now' = now + 1
    /\ UNCHANGED <<files, apiData, reqVars, tracker, appended, clientVars, harnessVars>>

(***************************************************************************)
(* Spec: one worker serves requests through the whole router while         *)
(* sessions are deleted and the clock advances.                            *)
(***************************************************************************)
Next ==
    \/ Receive("w1")
    \/ classify_query("w1")
    \/ get_tracker("w1")
    \/ BuildContext("w1")
    \/ AskAnswer("w1")
    \/ SaveExists("w1")
    \/ SaveRead("w1")
    \/ SaveStamp("w1")
    \/ SaveWrite("w1")
    \/ Return("w1")
    \/ \E sid \in SessionIds : ClearSession(sid)
    \/ Tick

Spec == Init /\ [][Next]_vars

(***************************************************************************)
(* Properties of the router (Spec).                                        *)
(***************************************************************************)
Has(ev, e) == \E i \in 1..Len(ev) : ev[i] = e

Count(ev, e) == Cardinality({i \in 1..Len(ev) : ev[i] = e})

SavePcs == {"save", "save_read", "stamp", "write"}

(* a step that changes the store is an append by some request or the       *)
(* deletion of a whole session                                             *)
StoreChangeIsAppendOrDelete ==
    \/ \E p \in Workers : events'[p] = Append(events[p], "append")
    \/ \E sid \in FileIds :
          /\ files[sid].exists /\ ~files'[sid].exists
          /\ \A other \in FileIds \ {sid} : files'[other] = files[other]

FailedBeforeAnswer(p) == error[p] # "none" /\ answer[p] = "none"

(* C2: a request that fails before an answer was obtained (classification, *)
(* progress fetch, context or answer generation) has appended nothing, and *)
(* none of its steps changes the store: the store changes only by an       *)
(* append of a request or by a session deletion.                           *)
C2_FailedRequestKeepsStore ==
    [][ /\ \A p \in Workers :
              FailedBeforeAnswer(p)' =>
                  /\ ~Has(events'[p], "append")
                  /\ (pc[p] # pc'[p] => files' = files)
        /\ (files' # files => StoreChangeIsAppendOrDelete) ]_vars

C2_Witness ==
    \E p \in Workers :
        /\ FailedBeforeAnswer(p)
        /\ Truthy(session_id[p])
        /\ Has(events[p], "answer_llm")
        /\ files[session_id[p]].exists

C4_NoSessionNoHistory ==
    [][ \A p \in Workers :
          (pc[p] # "idle" /\ ~Truthy(session_id[p]) /\ pc'[p] # pc[p]) =>
              /\ files' = files
              /\ pc'[p] \notin SavePcs
              /\ (pc'[p] = "done" => answer'[p] \in Answers /\ ~Has(events'[p], "append")) ]_vars

C4_Witness ==
    \E p \in Workers :
        /\ pc[p] = "done"
        /\ ~Truthy(session_id[p])
        /\ answer[p] \in Answers
        /\ \E sid \in SessionIds : files[sid].exists

(* rank of an external call in the order RECEIVED .. PERSISTED *)
Rank(e) ==
    CASE e = "classify_llm" -> 1
      [] e \in {"fetch_progress", "window", "context"} -> 2
      [] e = "answer_llm" -> 3
      [] e = "append" -> 4

StepsInOrder(p) ==
    LET ev == events[p]
    IN /\ \A i, j \in 1..Len(ev) : i < j => (Rank(ev[i]) <= Rank(ev[j]) /\ ev[i] # ev[j])
       /\ (ev # <<>> => ev[1] = "classify_llm")
       /\ (Has(ev, "answer_llm") =>
              /\ query_type[p] = "tracking" => (Has(ev, "context") /\ tracker[p].loaded)
              /\ query_type[p] = "recommendation" => Has(ev, "context")
              /\ Truthy(session_id[p]) => Has(ev, "window"))
       /\ (Has(ev, "append") => (Has(ev, "answer_llm") /\ answer[p] \in Answers))
       /\ (pc[p] = "done" =>
              /\ Has(ev, "answer_llm")
              /\ Truthy(session_id[p]) => Has(ev, "append"))
       /\ (error[p] # "none" => pc[p] = "failed")

(* C5: the external calls of a request happen in the order classification, *)
(* window/context, answer, append, none of them twice; a finished request  *)
(* went through all of them (the append only with a session id); after an  *)
(* error the request makes no further call.                                *)
C5_FixedStepOrder ==
    [][ \A p \in Workers :
          /\ StepsInOrder(p)'
          /\ (error[p] # "none" => (events'[p] = events[p] \/ pc'[p] = "idle")) ]_vars

C5_Witness ==
    \E p \in Workers :
        /\ pc[p] = "done"
        /\ events[p] = <<"classify_llm", "fetch_progress", "window", "context",
                        "answer_llm", "append">>

(* C7: every stored message and every returned result carries one of the   *)
(* three categories, and the context provider a request used is the one of *)
(* its category.                                                           *)
C7_CategoryOneOfThree ==
    /\ \A sid \in FileIds : \A i \in 1..Len(files[sid].messages) :
          files[sid].messages[i].type \in Categories
    /\ \A p \in Workers :
          /\ (pc[p] = "done" =>
                 Result(query[p], answer[p], query_type[p], session_id[p]).type \in Categories)
          /\ (handler[p] # "unset" =>
                 /\ query_type[p] \in Categories
                 /\ (query_type[p] = "tracking") <=> (handler[p] = "progress")
                 /\ (query_type[p] = "recommendation") <=> (handler[p] = "catalog")
                 /\ (query_type[p] = "learning") <=> (handler[p] = "none"))

C7_Witness ==
    \E p \in Workers :
        /\ pc[p] = "done"
        /\ query_type[p] = "recommendation"
        /\ handler[p] = "catalog"
        /\ \E sid \in SessionIds :
              /\ files[sid].exists
              /\ files[sid].messages[1].type = "tracking"

(***************************************************************************)
(* SpecClassify: classify_query's parsing applied to each raw reply.       *)
(***************************************************************************)
InitClassify ==
    /\ InitCommon
    /\ response \in Responses
    /\ classified = "unset"

ClassifyReply ==
    /\ classified = "unset"
    /\ classified' = ParseResponse(Concat(response))
    /\ UNCHANGED <<files, now, apiData, reqVars, tracker, appended, clientVars,
                   response, rendered, llm, catalogVars, promptVars,
                   progressVars>>

SpecClassify == InitClassify /\ [][ClassifyReply]_vars

EqIgnoreCase(a, b) ==
    /\ Len(a) = Len(b)
    /\ \A i \in 1..Len(a) : LowerChar(a[i]) = LowerChar(b[i])

ContainsIgnoreCase(s, kw) ==
    \E i \in 1..Len(s) :
        /\ i + Len(kw) - 1 <= Len(s)
        /\ EqIgnoreCase(SubSeq(s, i, i + Len(kw) - 1), kw)

(* C6: a reply that contains "tracking" in any letter case is classified   *)
(* tracking, also when it contains "recommendation"; one that contains     *)
(* only "recommendation" is classified recommendation; any other reply     *)
(* (empty, other text) is classified learning.                             *)
C6_ClassifyBySubstringPriority ==
    classified # "unset" =>
        LET raw == Concat(response)
            hasT == ContainsIgnoreCase(raw, KwTracking)
            hasR == ContainsIgnoreCase(raw, KwRecommendation)
        IN /\ hasT => classified = "tracking"
           /\ (~hasT /\ hasR) => classified = "recommendation"
           /\ (~hasT /\ ~hasR) => classified = "learning"

C6_Witness ==
    /\ classified = "tracking"
    /\ ContainsIgnoreCase(Concat(response), KwRecommendation)
    /\ ~Contains(Concat(response), KwTracking)

(***************************************************************************)
(* SpecStore: a client calls the history store's operations one after the  *)
(* other (each call runs to completion).                                   *)
(***************************************************************************)
(* ChatHistory.save_message run without interruption: the files after it *)
save_message(fs, sid, q, a, ty, t) ==
    LET loaded == IF SessionFileExists(fs, sid) THEN fs[sid] ELSE NewHistory(sid, t)
    IN WriteFile(fs, sid, AddMessage(loaded, Message(t, q, a, ty), t))

(* main.py clear_history: 404 when clear_session found nothing to delete *)
clear_history(fs, sid) ==
    LET r == clear_session(fs, sid)
    IN [files |-> r.files, status |-> IF r.deleted THEN 200 ELSE 404]

(* every order in which the members of S can be enumerated *)
RECURSIVE Orders(_)
Orders(S) ==
    IF S = {} THEN {<<>>}
    ELSE UNION {{<<x>> \o o : o \in Orders(S \ {x})} : x \in S}

(* storage_dir.glob("*.json"): the session files, in the order the file    *)
(* system happens to give them                                             *)
Glob(fs) == Orders({f \in FileIds : fs[f].exists})

(* the summary dict list_sessions builds from one session file; a          *)
(* last_updated of 0 is the None that history.get("last_updated") gives    *)
(* for a record without that key                                           *)
Summary(h) ==
    [session_id |-> h.session_id, created_at |-> h.created_at,
     last_updated |-> h.last_updated, message_count |-> Len(h.messages)]

(* one insertion of the stable descending sort: x goes behind every        *)
(* element whose key is not smaller                                        *)
InsertDesc(sorted, x) ==
    LET ahead == {i \in 1..Len(sorted) : sorted[i].last_updated >= x.last_updated}
        k == IF ahead = {} THEN 0 ELSE CHOOSE i \in ahead : \A j \in ahead : j <= i
    IN SubSeq(sorted, 1, k) \o <<x>> \o SubSeq(sorted, k + 1, Len(sorted))

(* sessions.sort(key=last_updated, reverse=True); Python's sort is stable  *)
RECURSIVE SortDesc(_)
SortDesc(sessions) ==
    IF sessions = <<>> THEN <<>>
    ELSE InsertDesc(SortDesc(SubSeq(sessions, 1, Len(sessions) - 1)),
                    sessions[Len(sessions)])

(* ChatHistory.list_sessions for one glob order.  The sort key of a        *)
(* summary is its "last_updated" value (the key is always present, so the  *)
(* default "" of x.get is never used); sorting two or more keys of which   *)
(* one is None compares None with "<", which raises TypeError.             *)
list_sessions(fs, order) ==
    LET sessions == [i \in 1..Len(order) |-> Summary(fs[order[i]])]
    IN IF Len(sessions) >= 2 /\ \E i \in 1..Len(sessions) : sessions[i].last_updated = 0
       THEN [error |-> "TypeError", sessions |-> <<>>]
       ELSE [error |-> "none", sessions |-> SortDesc(sessions)]

(* limits a caller of GET /history/{session_id} may pass *)
Limits == {NoLimit} \cup {<<k>> : k \in (-1)..MaxLimit}

StoreTypes == {"learning", "tracking"}

StoreAppend(sid, a, ty) ==
    /\ ops < MaxOps
    /\ files' = save_message(files, sid, ops + 1, a, ty, now)
    /\ appended' = [appended EXCEPT ![sid] = Append(@, Message(now, ops + 1, a, ty))]
    /\ lastOp' = "append"
    /\ lastArgs' = [sid |-> sid, limit |-> NoLimit]
    /\ lastResult' = NoResult
    /\ ops' = ops + 1
    /\ UNCHANGED <<now, apiData, reqVars, tracker, http, listed, deleted_count,
                   harnessVars>>

StoreRead(sid, limit) ==
    /\ ops < MaxOps
    /\ lastOp' = "read"
    /\ lastArgs' = [sid |-> sid, limit |-> limit]
    /\ lastResult' = [messages |-> get_history(files, sid, limit), deleted |-> FALSE]
    /\ ops' = ops + 1
    /\ http' = 200
    /\ UNCHANGED <<files, now, apiData, reqVars, tracker, appended, listed,
                   deleted_count, harnessVars>>

StoreDelete(sid) ==
    /\ ops < MaxOps
    /\ files' = clear_session(files, sid).files
    /\ appended' = [appended EXCEPT ![sid] = <<>>]
    /\ lastOp' = "delete"
    /\ lastArgs' = [sid |-> sid, limit |-> NoLimit]
    /\ lastResult' = [messages |-> <<>>, deleted |-> clear_session(files, sid).deleted]
    /\ ops' = ops + 1
    /\ http' = clear_history(files, sid).status
    /\ UNCHANGED <<now, apiData, reqVars, tracker, listed, deleted_count, harnessVars>>

(* GET /sessions *)
StoreList ==
    /\ ops < MaxOps
    /\ \E order \in Glob(files) :
          /\ listed' = list_sessions(files, order)
          /\ http' = IF listed'.error = "none" THEN 200 ELSE 500
    /\ lastOp' = "list"
    /\ lastArgs' = NoArgs
    /\ lastResult' = NoResult
    /\ ops' = ops + 1
    /\ UNCHANGED <<files, now, apiData, reqVars, tracker, appended, deleted_count,
                   harnessVars>>

NextStore ==
    \/ \E sid \in SessionIds, a \in Answers, ty \in StoreTypes :
          StoreAppend(sid, a, ty)
    \/ \E sid \in SessionIds, limit \in Limits : StoreRead(sid, limit)
    \/ \E sid \in SessionIds : StoreDelete(sid)
    \/ StoreList
    \/ Tick

SpecStore == Init /\ [][NextStore]_vars

(* the last k elements of a sequence, all of it when it is shorter *)
LastK(q, k) == SubSeq(q, (IF Len(q) > k THEN Len(q) - k ELSE 0) + 1, Len(q))

(* C8: a read returns the session's messages in append order, and a read   *)
(* with limit k >= 0 returns exactly the last k of them (all when there    *)
(* are fewer than k).                                                      *)
C8_ReadReturnsLastK ==
    lastOp = "read" =>
        LET all == appended[lastArgs.sid]
        IN /\ lastArgs.limit = NoLimit => lastResult.messages = all
           /\ (lastArgs.limit # NoLimit /\ lastArgs.limit[1] >= 0) =>
                 lastResult.messages = LastK(all, lastArgs.limit[1])

(***************************************************************************)
(* SpecConc: two workers save the turns of answered requests into the      *)
(* shared store while sessions are deleted and the clock advances.         *)
(***************************************************************************)
(* the store never looks at a turn's category: one reply is enough here *)
ConcReplies == {<<KwLearning>>}

(* smart_answer from its entry to the answer, for a request that gets one: *)
(* these steps write nothing to the store                                  *)
Answered(p) ==
    /\ pc[p] = "idle"
    /\ started < MaxRequests
    /\ started' = started + 1
    /\ \E sid \in SessionIds, parts \in ConcReplies, a \in Answers :
          LET qt == ParseResponse(Concat(parts))
              fetch == qt = "tracking" /\ ~tracker[p].loaded
          IN /\ query' = [query EXCEPT ![p] = started + 1]
             /\ session_id' = [session_id EXCEPT ![p] = sid]
             /\ query_type' = [query_type EXCEPT ![p] = qt]
             /\ answer' = [answer EXCEPT ![p] = a]
             /\ handler' = [handler EXCEPT ![p] = Handler(qt)]
             /\ tracker' = IF fetch
                           THEN [tracker EXCEPT ![p] = [loaded |-> TRUE, data |-> apiData]]
                           ELSE tracker
             /\ Log(p, <<"classify_llm">>
                       \o (IF fetch THEN <<"fetch_progress">> ELSE <<>>)
                       \o <<"window">>
                       \o (IF Handler(qt) # "none" THEN <<"context">> ELSE <<>>)
                       \o <<"answer_llm">>)
             /\ window' = [window EXCEPT ![p] = ConversationWindow(files, sid)]
             /\ context' = [context EXCEPT ![p] = ContextData(qt, tracker'[p])]
             /\ pc' = [pc EXCEPT ![p] = NextPc("answer", qt, sid)]
    /\ UNCHANGED <<files, now, apiData, history, error, appended, clientVars,
                   response, classified, rendered, llm, catalogVars, progressVars>>

NextConc ==
    \/ \E p \in Workers : Answered(p)
    \/ \E p \in Workers : SaveExists(p)
    \/ \E p \in Workers : SaveRead(p)
    \/ \E p \in Workers : SaveStamp(p)
    \/ \E p \in Workers : SaveWrite(p)
    \/ \E p \in Workers : Return(p)
    \/ \E sid \in SessionIds : ClearSession(sid)
    \/ Tick

SpecConc == Init /\ [][NextConc]_vars

(***************************************************************************)
(* SpecAppend: as SpecConc, with appends only (no session is deleted).     *)
(***************************************************************************)
NextAppend ==
    \/ \E p \in Workers : Answered(p)
    \/ \E p \in Workers : SaveExists(p)
    \/ \E p \in Workers : SaveRead(p)
    \/ \E p \in Workers : SaveStamp(p)
    \/ \E p \in Workers : SaveWrite(p)
    \/ \E p \in Workers : Return(p)
    \/ Tick

SpecAppend == Init /\ [][NextAppend]_vars

(* no save_message call on the session is in progress *)
Quiescent(sid) == \A p \in Workers : pc[p] \in SavePcs => session_id[p] # sid

CountMsg(q, m) == Cardinality({i \in 1..Len(q) : q[i] = m})

(* C1: once every append to a session has returned, the session holds each *)
(* appended message as often as it was appended.                           *)
C1_NoLostAppend ==
    \A sid \in SessionIds :
        (Quiescent(sid) /\ files[sid].exists) =>
            \A i \in 1..Len(appended[sid]) :
                CountMsg(files[sid].messages, appended[sid][i])
                    = CountMsg(appended[sid], appended[sid][i])

IsPrefix(a, b) == Len(a) <= Len(b) /\ SubSeq(b, 1, Len(a)) = a

(* C9: while a session exists, every step leaves its earlier messages in   *)
(* place: the old message sequence is a prefix of the new one.             *)
C9_AppendOnly ==
    [][ \A sid \in SessionIds :
          (files[sid].exists /\ files'[sid].exists) =>
              IsPrefix(files[sid].messages, files'[sid].messages) ]_vars

(* C10: while a session exists, no step lowers its last_updated.           *)
C10_LastUpdatedMonotonic ==
    [][ \A sid \in SessionIds :
          (files[sid].exists /\ files'[sid].exists) =>
              files'[sid].last_updated >= files[sid].last_updated ]_vars

(* C11: created_at is written by the append that creates the session and   *)
(* by no later one: a step that leaves the session in existence leaves     *)
(* its created_at alone, and every step that stores a message also stores  *)
(* a last_updated.                                                         *)
C11_CreatedAtSetOnce ==
    [][ \A sid \in SessionIds :
          /\ (files[sid].exists /\ files'[sid].exists) =>
                 files'[sid].created_at = files[sid].created_at
          /\ (files'[sid].exists /\ files'[sid] # files[sid]) =>
                 /\ files'[sid].created_at # 0
                 /\ files'[sid].last_updated # 0 ]_vars

(***************************************************************************)
(* Properties of delete, list and read (SpecStore).                        *)
(***************************************************************************)
ListedIds(l) == {l.sessions[i].session_id : i \in 1..Len(l.sessions)}

(* C12: a delete of a session that does not exist returns false, is        *)
(* answered 404 and leaves the store as it was; a delete of an existing    *)
(* session returns true and removes that session only; the list call that  *)
(* follows it succeeds without that id and the read of that id that        *)
(* follows it returns no message.                                          *)
C12_DeleteSemantics ==
    [][ ops' = ops + 1 =>
          /\ lastOp' = "delete" =>
                LET sid == lastArgs'.sid
                IN /\ ~files[sid].exists =>
                         /\ ~lastResult'.deleted
                         /\ http' = 404
                         /\ files' = files
                   /\ files[sid].exists =>
                         /\ lastResult'.deleted
                         /\ http' = 200
                         /\ ~files'[sid].exists
                         /\ \A o \in FileIds \ {sid} : files'[o] = files[o]
          /\ (lastOp = "delete" /\ lastResult.deleted /\ lastOp' = "list") =>
                /\ listed'.error = "none"
                /\ lastArgs.sid \notin ListedIds(listed')
          /\ (lastOp = "delete" /\ lastResult.deleted /\ lastOp' = "read"
                 /\ lastArgs'.sid = lastArgs.sid) =>
                lastResult'.messages = <<>> ]_vars

(* an existing session was deleted, with status 200, while another        *)
(* session stays in the store                                              *)
C12_Witness ==
    /\ lastOp = "delete"
    /\ lastResult.deleted
    /\ http = 200
    /\ ~files[lastArgs.sid].exists
    /\ \E o \in SessionIds : files[o].exists /\ Len(files[o].messages) = 2

(* C14: a read of a session that does not exist returns the empty          *)
(* sequence with status 200 and leaves the store unchanged, and a list     *)
(* call that follows it does not show that id.                             *)
C14_ReadUnknownIsEmpty ==
    [][ ops' = ops + 1 =>
          /\ (lastOp' = "read" /\ ~files[lastArgs'.sid].exists) =>
                /\ lastResult'.messages = <<>>
                /\ http' = 200
                /\ files' = files
          /\ (lastOp = "read" /\ ~files[lastArgs.sid].exists /\ lastOp' = "list") =>
                /\ listed'.error = "none"
                /\ lastArgs.sid \notin ListedIds(listed') ]_vars

(* a session that does not exist was read, with a limit, while another    *)
(* session exists                                                          *)
C14_Witness ==
    /\ lastOp = "read"
    /\ ~files[lastArgs.sid].exists
    /\ lastArgs.limit # NoLimit
    /\ lastResult.messages = <<>>
    /\ http = 200
    /\ \E o \in SessionIds : files[o].exists

(***************************************************************************)
(* SpecList: the store's operations on a storage directory that already    *)
(* held session files when ChatHistory was constructed (mkdir with         *)
(* exist_ok), some of them records without a "last_updated" key, the       *)
(* records list_sessions reads with history.get("last_updated").           *)
(***************************************************************************)
(* a session record without "last_updated" and with no message yet *)
RecordWithoutLastUpdated(sid) ==
    [exists |-> TRUE, session_id |-> sid, created_at |-> 1,
     messages |-> <<>>, last_updated |-> 0]

InitList ==
    /\ files \in {fs \in [FileIds -> {NoFile} \cup {RecordWithoutLastUpdated(sid) : sid \in SessionIds}] :
                     /\ fs[NoSession] = NoFile
                     /\ \A sid \in SessionIds :
                           fs[sid] \in {NoFile, RecordWithoutLastUpdated(sid)}}
    /\ appended = [f \in FileIds |-> <<>>]
    /\ InitProcess
    /\ response = <<>>
    /\ classified = "unset"

SpecList == InitList /\ [][NextStore]_vars

HasLastUpdated(x) == x.last_updated # 0

(* C13: a list call succeeds and returns one summary per stored session,   *)
(* those with a last_updated in descending order of it and those without   *)
(* one behind all of them.                                                 *)
C13_ListSortedLackingLast ==
    lastOp = "list" =>
        /\ listed.error = "none"
        /\ http = 200
        /\ ListedIds(listed) = {f \in FileIds : files[f].exists}
        /\ Len(listed.sessions) = Cardinality(ListedIds(listed))
        /\ \A i, j \in 1..Len(listed.sessions) :
              i < j =>
                 LET a == listed.sessions[i]
                     b == listed.sessions[j]
                 IN /\ (HasLastUpdated(a) /\ HasLastUpdated(b)) =>
                          a.last_updated >= b.last_updated
                    /\ HasLastUpdated(b) => HasLastUpdated(a)

(***************************************************************************)
(* history.py get_conversation_context.  In a rendered text a literal of   *)
(* the source is one piece and the characters of an answer are one piece   *)
(* each; the empty string is <<>>.                                         *)
(***************************************************************************)
(* the answer length above which get_conversation_context cuts an answer *)
TruncateAt == 500

Header == <<"RIWAYAT PERCAKAPAN SEBELUMNYA:">>
UserPrefix == <<"\nUser: ">>
DicoPrefix == <<"Dico: ">>
Ellipsis == <<".", ".", ".">>
Footer ==
    <<"\n---\nPERTANYAAN SAAT INI MUNGKIN TERKAIT DENGAN PERCAKAPAN DI ATAS.\n">>

(* an answer of n characters: it starts with "a" and ends with "z" *)
Text(n) == [i \in 1..n |-> IF i = n THEN "z" ELSE IF i = 1 THEN "a" ELSE "x"]

(* answers stored before rendering: short, exactly at the cut, beyond it *)
RenderAnswers == {Text(1), Text(TruncateAt), Text(TruncateAt + 1), Text(TruncateAt + 3)}

CutAnswerNoEllipsis(ans) ==
    IF Len(ans) > TruncateAt THEN SubSeq(ans, 1, TruncateAt) ELSE ans

(* answer[:500] + "..." when len(ans) > 500 *)
CutAnswer(ans) ==
    IF Len(ans) > TruncateAt
    THEN SubSeq(ans, 1, TruncateAt) \o Ellipsis
    ELSE ans

(* sep.join(parts) *)
RECURSIVE Join(_, _)
Join(parts, sep) ==
    IF parts = <<>> THEN <<>>
    ELSE IF Len(parts) = 1 THEN parts[1]
    ELSE parts[1] \o sep \o Join(Tail(parts), sep)

(* the two entries context_parts gets for one message *)
MessageParts(msg) ==
    << UserPrefix \o <<ToString(msg.query)>>, DicoPrefix \o CutAnswer(msg.answer) >>

RECURSIVE ContextParts(_)
ContextParts(messages) ==
    IF messages = <<>> THEN <<>>
    ELSE MessageParts(Head(messages)) \o ContextParts(Tail(messages))

(* ChatHistory.get_conversation_context: context_parts and the string      *)
(* returned                                                                *)
get_conversation_context(fs, sid, last_n) ==
    LET messages == get_history(fs, sid, <<last_n>>)
    IN IF messages = <<>> THEN NoRender
       ELSE LET context_parts == <<Header>> \o ContextParts(messages) \o <<Footer>>
            IN [parts |-> context_parts, text |-> Join(context_parts, <<"\n">>)]

(***************************************************************************)
(* SpecRender: turns are appended to a session and conversation windows    *)
(* are rendered, one call after the other.                                 *)
(***************************************************************************)
RenderSessions == {"s1"}
WindowSizes == 0..MaxLimit

StoreRender(sid, last_n) ==
    /\ ops < MaxOps
    /\ rendered' = get_conversation_context(files, sid, last_n)
    /\ lastOp' = "render"
    /\ lastArgs' = [sid |-> sid, limit |-> <<last_n>>]
    /\ lastResult' = NoResult
    /\ ops' = ops + 1
    /\ UNCHANGED <<files, now, apiData, reqVars, tracker, appended, http, listed,
                   deleted_count,
                   response, classified, llm, catalogVars, promptVars,
                   progressVars>>

NextRender ==
    \/ \E sid \in RenderSessions, a \in RenderAnswers : StoreAppend(sid, a, "learning")
    \/ \E sid \in SessionIds, last_n \in WindowSizes : StoreRender(sid, last_n)

SpecRender == Init /\ [][NextRender]_vars

(* the messages a rendered text shows: as many of the session's latest     *)
(* messages as the text has pairs of lines                                 *)
Shown(sid) == LastK(appended[sid], (Len(rendered.parts) - 2) \div 2)

(* C15: the rendering of a session without messages, or of an unknown      *)
(* session, is the empty string; any other rendering is not empty, and the *)
(* line of each answer it shows is the answer itself when that has at most *)
(* 500 characters and else its first 500 characters followed by "...".     *)
C15_RenderTruncatesLongAnswers ==
    lastOp = "render" =>
        LET sid == lastArgs.sid
        IN /\ (rendered.text = <<>>) <=> (appended[sid] = <<>>)
           /\ rendered.text # <<>> =>
                 /\ Len(rendered.parts) >= 4
                 /\ rendered.text = Join(rendered.parts, <<"\n">>)
                 /\ \A i \in 1..Len(Shown(sid)) :
                       LET a == Shown(sid)[i].answer
                           line == rendered.parts[2 * i + 1]
                       IN /\ SubSeq(line, 1, 1) = DicoPrefix
                          /\ Len(a) <= 500 => Tail(line) = a
                          /\ Len(a) > 500 =>
                                /\ Len(line) = 504
                                /\ SubSeq(line, 2, 501) = SubSeq(a, 1, 500)
                                /\ SubSeq(line, 502, 504) = <<".", ".", ".">>

(* a window was rendered that shows an answer of exactly 500 characters    *)
(* and a longer one                                                        *)
C15_Witness ==
    /\ lastOp = "render"
    /\ rendered.text # <<>>
    /\ \E i, j \in 1..Len(Shown(lastArgs.sid)) :
          /\ Len(Shown(lastArgs.sid)[i].answer) = 500
          /\ Len(Shown(lastArgs.sid)[j].answer) > 500

(***************************************************************************)
(* llm.py ask_llm: the retry loop around model.generate_content.           *)
(*                                                                         *)
(* A backend outcome is the text of the response, or the exception that    *)
(* generate_content / response.text raised: its class (the most specific   *)
(* one an except clause of ask_llm names, "Exception" for any other) and   *)
(* its message.                                                            *)
(***************************************************************************)
(* max_retries when the caller passes none *)
DefaultMaxRetries == 3

KwBlock == <<"b", "l", "o", "c", "k">>
KwSafety == <<"s", "a", "f", "e", "t", "y">>
KwFinishReason ==
    <<"f", "i", "n", "i", "s", "h", "_", "r", "e", "a", "s", "o", "n">>
KwTimeout == <<"t", "i", "m", "e", "o", "u", "t">>
KwConnection == <<"c", "o", "n", "n", "e", "c", "t", "i", "o", "n">>
Kw503 == <<"5", "0", "3">>
Kw502 == <<"5", "0", "2">>
Kw500 == <<"5", "0", "0">>

(* messages an exception of the backend may carry *)
MsgSafety == <<"S", "a", "f", "e", "t", "y">>
MsgBad == <<"b", "a", "d">>
MsgTimeout == <<"T", "i", "m", "e", "o", "u", "t">>
Msg500 == <<"5", "0", "0">>
ErrorMessages == {MsgSafety, MsgBad, MsgTimeout, Msg500}

(* google.api_core classes ask_llm retries whatever their message *)
TransientClasses == {"ServiceUnavailable", "DeadlineExceeded", "InternalServerError"}

BackendOutcomes ==
    {[exc |-> "none", msg |-> <<>>, text |-> a] : a \in Answers}
    \cup {[exc |-> c, msg |-> m, text |-> "none"] :
             c \in {"ValueError", "GoogleAPIError", "Exception"}, m \in ErrorMessages}
    \cup {[exc |-> c, msg |-> MsgBad, text |-> "none"] :
             c \in {"ResourceExhausted"} \cup TransientClasses}

RECURSIVE Pow2(_)
Pow2(n) == IF n <= 0 THEN 1 ELSE 2 * Pow2(n - 1)

BackoffLinear(attempt) == 2 * attempt + 2

(* wait_time = (2 ** attempt) + 1 *)
Backoff(attempt) == Pow2(attempt) + 1

IsLastAttemptEarly(attempt, max_retries) == attempt >= max_retries - 2

(* attempt == max_retries - 1 *)
IsLastAttempt(attempt, max_retries) == attempt = max_retries - 1

IsBlockedNever(msg) == FALSE

(* "block" in error_str or "safety" in error_str or "finish_reason" in ... *)
IsBlocked(msg) ==
    LET error_str == Lower(msg)
    IN \/ Contains(error_str, KwBlock)
       \/ Contains(error_str, KwSafety)
       \/ Contains(error_str, KwFinishReason)

(* the keyword test of the GoogleAPIError clause *)
ApiRetryable(msg) ==
    LET error_str == Lower(msg)
    IN \/ Contains(error_str, KwTimeout)
       \/ Contains(error_str, KwConnection)
       \/ Contains(error_str, Kw503)

(* the keyword test of the generic Exception clause *)
UnexpectedRetryable(msg) ==
    LET error_str == Lower(msg)
    IN \E kw \in {KwTimeout, KwConnection, Kw503, Kw502, Kw500} :
          Contains(error_str, kw)

(* what one pass through the loop body ends in *)
Returns(text) ==
    [act |-> "return", raised |-> "none", message |-> "none", sleep |-> <<>>,
     returned |-> text]
Raises(exc, message) ==
    [act |-> "raise", raised |-> exc, message |-> message, sleep |-> <<>>,
     returned |-> "none"]
Sleeps(delay) ==
    [act |-> "continue", raised |-> "none", message |-> "none", sleep |-> <<delay>>,
     returned |-> "none"]

RetryWithoutSleep(attempt, max_retries, message) ==
    IF IsLastAttempt(attempt, max_retries)
    THEN Raises("RuntimeError", message)
    ELSE [act |-> "continue", raised |-> "none", message |-> "none",
          sleep |-> <<>>, returned |-> "none"]

RetryAlwaysSleeps(attempt, max_retries, message) == Sleeps(Backoff(attempt))

(* the body shared by the three retrying clauses: give up on the last      *)
(* attempt, else sleep wait_time and continue                              *)
RetryOrRaise(attempt, max_retries, message) ==
    IF IsLastAttempt(attempt, max_retries)
    THEN Raises("RuntimeError", message)
    ELSE Sleeps(Backoff(attempt))

(* the try/except of one loop iteration, clause by clause *)
HandleOutcome(o, attempt, max_retries) ==
    IF o.exc = "none" THEN Returns(o.text)
    ELSE IF o.exc = "ValueError"
    THEN (IF IsBlocked(o.msg)
          THEN Raises("ValueError", "content_policy")
          ELSE Raises("ValueError", "original"))
    ELSE IF o.exc = "ResourceExhausted"
    THEN RetryOrRaise(attempt, max_retries, "quota")
    ELSE IF o.exc \in TransientClasses
    THEN RetryOrRaise(attempt, max_retries, "cannot_connect")
    ELSE IF o.exc = "GoogleAPIError"
    THEN (IF ApiRetryable(o.msg)
          THEN RetryOrRaise(attempt, max_retries, "api_error_after_retries")
          ELSE Raises("RuntimeError", "api_error"))
    ELSE IF UnexpectedRetryable(o.msg) /\ attempt < max_retries - 1
    THEN Sleeps(Backoff(attempt))
    ELSE IF IsLastAttempt(attempt, max_retries)
    THEN Raises("RuntimeError", "failed_after_retries")
    ELSE Sleeps(1)

CallEvent(o, attempt) == [ev |-> "call", attempt |-> attempt, outcome |-> o, delay |-> 0]
SleepEvent(o, attempt, delay) ==
    [ev |-> "sleep", attempt |-> attempt, outcome |-> o, delay |-> delay]

(* ask_llm(prompt, system_prompt, max_retries) is entered *)
LlmCall(max_retries) ==
    /\ llm.pc = "idle"
    /\ llm' = [NoCall EXCEPT !.pc = "loop", !.max_retries = max_retries]
    /\ UNCHANGED <<files, now, apiData, reqVars, tracker, appended, clientVars,
                   response, classified, rendered, catalogVars,
                   promptVars, progressVars>>

(* one iteration of  for attempt in range(max_retries)  *)
LlmAttempt(o) ==
    /\ llm.pc = "loop"
    /\ llm.attempt < llm.max_retries
    /\ LET r == HandleOutcome(o, llm.attempt, llm.max_retries)
       IN llm' = [llm EXCEPT
                    !.pc = IF r.act = "return" THEN "returned"
                           ELSE IF r.act = "raise" THEN "raised" ELSE "loop",
                    !.attempt = IF r.act = "continue" THEN @ + 1 ELSE @,
                    !.log = @ \o <<CallEvent(o, llm.attempt)>>
                              \o [i \in 1..Len(r.sleep) |->
                                     SleepEvent(o, llm.attempt, r.sleep[i])],
                    !.raised = r.raised,
                    !.message = r.message,
                    !.returned = r.returned]
    /\ UNCHANGED <<files, now, apiData, reqVars, tracker, appended, clientVars,
                   response, classified, rendered, catalogVars,
                   promptVars, progressVars>>

(* the loop ended without a return: the raise after it *)
LlmExhausted ==
    /\ llm.pc = "loop"
    /\ llm.attempt >= llm.max_retries
    /\ llm' = [llm EXCEPT !.pc = "raised", !.raised = "RuntimeError",
                          !.message = "max_retries_exceeded"]
    /\ UNCHANGED <<files, now, apiData, reqVars, tracker, appended, clientVars,
                   response, classified, rendered, catalogVars,
                   promptVars, progressVars>>

NextLlm ==
    \/ \E max_retries \in 0..MaxRetries : LlmCall(max_retries)
    \/ \E o \in BackendOutcomes : LlmAttempt(o)
    \/ LlmExhausted

SpecLlm == Init /\ [][NextLlm]_vars

(***************************************************************************)
(* Properties of ask_llm (SpecLlm).                                        *)
(***************************************************************************)
CallsOf(log) == SelectSeq(log, LAMBDA e : e.ev = "call")
SleepsOf(log) == SelectSeq(log, LAMBDA e : e.ev = "sleep")
ClassesOf(log) == [i \in 1..Len(CallsOf(log)) |-> CallsOf(log)[i].outcome.exc]
KindsOf(log) == [i \in 1..Len(log) |-> log[i].ev]

(* C16: with the default of three attempts, a backend that answers the     *)
(* first two calls with a rate limit and the third with a text makes       *)
(* ask_llm sleep once after each of the two failed calls, call a third     *)
(* time and return that text.                                              *)
C16_RateLimitedTwiceThenAnswer ==
    llm.max_retries = DefaultMaxRetries =>
        LET cls == ClassesOf(llm.log)
        IN /\ cls = <<"ResourceExhausted">> =>
                 /\ llm.pc = "loop"
                 /\ KindsOf(llm.log) = <<"call", "sleep">>
           /\ cls = <<"ResourceExhausted", "ResourceExhausted">> =>
                 /\ llm.pc = "loop"
                 /\ KindsOf(llm.log) = <<"call", "sleep", "call", "sleep">>
           /\ cls = <<"ResourceExhausted", "ResourceExhausted", "none">> =>
                 /\ llm.pc = "returned"
                 /\ llm.returned = Last(llm.log).outcome.text
                 /\ KindsOf(llm.log) = <<"call", "sleep", "call", "sleep", "call">>
                 /\ Len(SleepsOf(llm.log)) = 2
                 /\ \A i \in 1..2 : SleepsOf(llm.log)[i].delay > 0

C16_Witness ==
    /\ llm.max_retries = DefaultMaxRetries
    /\ ClassesOf(llm.log) = <<"ResourceExhausted", "ResourceExhausted", "none">>
    /\ llm.pc = "returned"
    /\ llm.returned \in Answers

AllTransient(log) ==
    \A i \in 1..Len(log) :
        log[i].outcome.exc \in {"ResourceExhausted"} \cup TransientClasses

(* C17: while every backend call fails with a rate limit, service          *)
(* unavailable, deadline exceeded or internal server error, ask_llm never  *)
(* returns, goes on calling as long as it has made fewer than max_retries  *)
(* calls, and what it raises after exactly max_retries calls is a          *)
(* RuntimeError of its own, not the backend's error.                       *)
C17_TransientExhaustsRetries ==
    (llm.pc # "idle" /\ AllTransient(llm.log)) =>
        /\ llm.pc \in {"loop", "raised"}
        /\ Len(CallsOf(llm.log)) <= llm.max_retries
        /\ (llm.pc = "loop" /\ llm.max_retries > 0) =>
              /\ Len(CallsOf(llm.log)) < llm.max_retries
              /\ llm.attempt = Len(CallsOf(llm.log))
        /\ llm.pc = "raised" =>
              /\ llm.raised = "RuntimeError"
              /\ llm.message \notin {"original", "content_policy", "none"}
              /\ Len(CallsOf(llm.log)) = llm.max_retries

C17_Witness ==
    /\ llm.pc = "raised"
    /\ llm.raised = "RuntimeError"
    /\ llm.max_retries = DefaultMaxRetries
    /\ ClassesOf(llm.log) = <<"ResourceExhausted", "DeadlineExceeded", "ServiceUnavailable">>

(* a policy refusal: the ValueError whose text speaks of a blocked         *)
(* response, of safety or of the finish reason                             *)
PolicyRefusal(o) ==
    /\ o.exc = "ValueError"
    /\ \/ ContainsIgnoreCase(o.msg, KwBlock)
       \/ ContainsIgnoreCase(o.msg, KwSafety)
       \/ ContainsIgnoreCase(o.msg, KwFinishReason)

(* C18: a backend call answered by a policy refusal is the last thing      *)
(* ask_llm does: no sleep and no call follow it, and ask_llm has raised    *)
(* the ValueError with the fixed content-policy message.                   *)
C18_BlockedNeverRetried ==
    \A i \in 1..Len(llm.log) :
        (llm.log[i].ev = "call" /\ PolicyRefusal(llm.log[i].outcome)) =>
            /\ i = Len(llm.log)
            /\ llm.pc = "raised"
            /\ llm.raised = "ValueError"
            /\ llm.message = "content_policy"

(* the refusal came on the third call, after two retried failures *)
C18_Witness ==
    /\ llm.pc = "raised"
    /\ llm.message = "content_policy"
    /\ Len(CallsOf(llm.log)) = 3
    /\ PolicyRefusal(Last(llm.log).outcome)

MentionsTransient(msg) ==
    \E kw \in {KwTimeout, KwConnection, Kw503, Kw502, Kw500} : ContainsIgnoreCase(msg, kw)

(* an error that is neither a rate limit nor a transient connectivity or   *)
(* server condition, by its class or by its text                           *)
NonRetryable(o) ==
    /\ o.exc \notin {"none", "ResourceExhausted"} \cup TransientClasses
    /\ ~MentionsTransient(o.msg)

(* C19: a backend call that fails with a non-retryable error is the last   *)
(* thing ask_llm does: it raises at once, with no sleep and no further     *)
(* call, whichever attempt it was.                                         *)
C19_NonRetryablePropagates ==
    \A i \in 1..Len(llm.log) :
        (llm.log[i].ev = "call" /\ NonRetryable(llm.log[i].outcome)) =>
            /\ i = Len(llm.log)
            /\ llm.pc = "raised"

(* the sleeps that follow a rate limit or a transient error *)
BackoffSleeps(log) ==
    SelectSeq(log, LAMBDA e : e.ev = "sleep" /\ ~NonRetryable(e.outcome))

DefaultLimit == 5
(* number of courses the recommendation context lists *)
ContextLimit == 20

LevelIds == {1, 2}
PathIds == {1, 2}

(* learning_paths.json and course_levels.json *)
LearningPaths ==
    << [learning_path_id |-> 1, learning_path_name |-> <<"W", "e", "b">>],
       [learning_path_id |-> 2, learning_path_name |-> <<"A", "I">>] >>
CourseLevels ==
    << [id |-> 1, course_level |-> "Dasar"], [id |-> 2, course_level |-> "Mahir"] >>

(* the contents courses.json may have: every catalog of up to MaxCourses   *)
(* courses, and a long one whose levels alternate 2, 1, 2, 1, ...          *)
CatalogsOfLen(n) ==
    {[i \in 1..n |-> [course_id |-> i, course_level_str |-> lv[i],
                      learning_path_id |-> pa[i]]] :
        lv \in [1..n -> LevelIds], pa \in [1..n -> PathIds]}
LongCatalog(n) ==
    [i \in 1..n |-> [course_id |-> i, course_level_str |-> 2 - ((i + 1) % 2),
                     learning_path_id |-> 1]]
Catalogs ==
    UNION {CatalogsOfLen(n) : n \in 0..MaxCourses}
    \cup {LongCatalog(ContextLimit + 1)}

(* arguments callers pass to get_recommended_courses; <<>> and 0 are the   *)
(* falsy values (None, "", 0) that switch a filter off                     *)
NameFilters == {<<>>, <<"w", "e", "b">>, <<"g", "o">>}
LevelFilters == {0} \cup LevelIds
RecLimits == ((-1)..MaxLimit) \cup {DefaultLimit}

(* DataLoader.courses: the property loads the file on first access *)
Courses(cache, file) ==
    IF cache.loaded THEN cache
    ELSE [loaded |-> TRUE, courses |-> file, loaded_as |-> file]

(* DataLoader.get_level_name / get_learning_path_name *)
get_level_name(level_id) ==
    IF \E i \in 1..Len(CourseLevels) : CourseLevels[i].id = level_id
    THEN CourseLevels[CHOOSE i \in 1..Len(CourseLevels) : CourseLevels[i].id = level_id].course_level
    ELSE "Unknown"
get_learning_path_name(path_id) ==
    IF \E i \in 1..Len(LearningPaths) : LearningPaths[i].learning_path_id = path_id
    THEN LearningPaths[CHOOSE i \in 1..Len(LearningPaths) :
                          LearningPaths[i].learning_path_id = path_id].learning_path_name
    ELSE <<"U", "n", "k", "n", "o", "w", "n">>

(* RecommendationEngine.get_learning_path_by_name: <<path>> or <<>> (None) *)
get_learning_path_by_name(path_name) ==
    LET hits == {i \in 1..Len(LearningPaths) :
                   Lower(LearningPaths[i].learning_path_name) = Lower(path_name)}
    IN IF hits = {} THEN <<>>
       ELSE <<LearningPaths[CHOOSE i \in hits : \A j \in hits : i <= j]>>

InsertAscUnstable(sorted, x) ==
    LET ahead == {i \in 1..Len(sorted) : sorted[i].course_level_str < x.course_level_str}
        k == IF ahead = {} THEN 0 ELSE CHOOSE i \in ahead : \A j \in ahead : j <= i
    IN SubSeq(sorted, 1, k) \o <<x>> \o SubSeq(sorted, k + 1, Len(sorted))

(* one insertion of the stable ascending sort: x goes behind every element *)
(* whose level is not greater                                              *)
InsertAsc(sorted, x) ==
    LET ahead == {i \in 1..Len(sorted) : sorted[i].course_level_str <= x.course_level_str}
        k == IF ahead = {} THEN 0 ELSE CHOOSE i \in ahead : \A j \in ahead : j <= i
    IN SubSeq(sorted, 1, k) \o <<x>> \o SubSeq(sorted, k + 1, Len(sorted))

(* courses.sort(key=level); Python's sort is stable *)
RECURSIVE SortAsc(_)
SortAsc(courses) ==
    IF courses = <<>> THEN <<>>
    ELSE InsertAsc(SortAsc(SubSeq(courses, 1, Len(courses) - 1)), courses[Len(courses)])

TakeOneMore(courses, limit) == SubSeq(courses, 1, IF limit + 1 < Len(courses) THEN limit + 1 ELSE Len(courses))

(* Python's  courses[:limit] *)
Take(courses, limit) ==
    LET n == Len(courses)
        stop == IF limit >= 0
                THEN (IF limit < n THEN limit ELSE n)
                ELSE (IF n + limit > 0 THEN n + limit ELSE 0)
    IN SubSeq(courses, 1, stop)

(* the dict built for one recommended or listed course *)
Decorate(course) ==
    [course_id |-> course.course_id,
     level_id |-> course.course_level_str,
     level_name |-> get_level_name(course.course_level_str),
     learning_path_id |-> course.learning_path_id,
     learning_path_name |-> get_learning_path_name(course.learning_path_id)]

(* RecommendationEngine.get_recommended_courses on the cached list:        *)
(* [the cached list afterwards, the recommendations returned].  The list   *)
(* named  courses  is the cached list itself until a filter replaces it by *)
(* a new list, and courses.sort sorts whichever list that is, in place.    *)
get_recommended_courses(cached, learning_path_name, course_level, limit) ==
    LET path == get_learning_path_by_name(learning_path_name)
    IN IF learning_path_name # <<>> /\ path = <<>>
       THEN [cached |-> cached, recommendations |-> <<>>]
       ELSE LET by_path ==
                    IF learning_path_name # <<>>
                    THEN SelectSeq(cached, LAMBDA c :
                            c.learning_path_id = path[1].learning_path_id)
                    ELSE cached
                by_level ==
                    IF course_level # 0
                    THEN SelectSeq(by_path, LAMBDA c : c.course_level_str = course_level)
                    ELSE by_path
                is_cached_list == learning_path_name = <<>> /\ course_level = 0
                sorted == SortAsc(by_level)
                top == Take(sorted, limit)
            IN [cached |-> IF is_cached_list THEN sorted ELSE cached,
                recommendations |-> [i \in 1..Len(top) |-> Decorate(top[i])]]

(* the course lines of the context block answer_recommendation_query       *)
(* builds: data_loader.courses[:20], each with its level and path name     *)
recommendation_context(cached) ==
    LET all_courses == Take(cached, ContextLimit)
    IN [i \in 1..Len(all_courses) |-> Decorate(all_courses[i])]

(***************************************************************************)
(* SpecCatalog: calls of the recommendation engine in one process, one     *)
(* after the other (the endpoints do not yield while they run).            *)
(***************************************************************************)
(* courses.json is read once, by the first call that needs the catalog,    *)
(* and does not change while the process runs                              *)
CoursesFile == IF catalog.loaded THEN {catalog.loaded_as} ELSE Catalogs

(* GET /recommendations and other callers of get_recommended_courses *)
Recommend(learning_path_name, course_level, limit) ==
    /\ \E file \in CoursesFile :
          LET cache == Courses(catalog, file)
              r == get_recommended_courses(cache.courses, learning_path_name,
                                           course_level, limit)
          IN /\ catalog' = [cache EXCEPT !.courses = r.cached]
             /\ recResult' = r.recommendations
    /\ recCall' = [op |-> "recommend", learning_path_name |-> learning_path_name,
                   course_level |-> course_level, limit |-> limit]
    /\ UNCHANGED <<files, now, apiData, reqVars, tracker, appended, clientVars,
                   response, classified, rendered, llm, promptVars,
                   progressVars>>

(* answer_recommendation_query up to its prompt: the context block *)
RecommendationContext ==
    /\ \E file \in CoursesFile :
          LET cache == Courses(catalog, file)
          IN /\ catalog' = cache
             /\ recResult' = recommendation_context(cache.courses)
    /\ recCall' = [NoRecCall EXCEPT !.op = "context"]
    /\ UNCHANGED <<files, now, apiData, reqVars, tracker, appended, clientVars,
                   response, classified, rendered, llm, promptVars,
                   progressVars>>

NextCatalog ==
    \/ \E name \in NameFilters, level \in LevelFilters, limit \in RecLimits :
          Recommend(name, level, limit)
    \/ RecommendationContext

SpecCatalog == Init /\ [][NextCatalog]_vars

IdsOf(courses) == [i \in 1..Len(courses) |-> courses[i].course_id]

(* the learning paths whose name is the filter, letter case aside *)
PathsNamed(name) ==
    {i \in 1..Len(LearningPaths) : EqIgnoreCase(LearningPaths[i].learning_path_name, name)}

(* C21: a recommend call with a limit >= 0 returns at most limit courses   *)
(* (at most 5 for limit 5), and a call with a non-empty path name that no  *)
(* learning path has returns the empty sequence.                           *)
C21_RecommendWithinLimit ==
    recCall.op = "recommend" =>
        /\ recCall.limit >= 0 => Len(recResult) <= recCall.limit
        /\ recCall.limit = DefaultLimit => Len(recResult) <= 5
        /\ (recCall.learning_path_name # <<>> /\ PathsNamed(recCall.learning_path_name) = {}) =>
              recResult = <<>>

(* limit 5 cut a longer list down to five courses *)
C21_Witness ==
    /\ recCall.op = "recommend"
    /\ recCall.limit = DefaultLimit
    /\ Len(catalog.courses) > 5
    /\ Len(recResult) = 5

(* the courses of the loaded file that pass the filters of the last call *)
Selected ==
    {i \in 1..Len(catalog.loaded_as) :
        /\ recCall.learning_path_name # <<>> =>
              \E p \in PathsNamed(recCall.learning_path_name) :
                 catalog.loaded_as[i].learning_path_id = LearningPaths[p].learning_path_id
        /\ recCall.course_level # 0 =>
              catalog.loaded_as[i].course_level_str = recCall.course_level}

(* course i of the file comes before course j in level order, load order   *)
(* deciding between equal levels                                           *)
Before(i, j) ==
    \/ catalog.loaded_as[i].course_level_str < catalog.loaded_as[j].course_level_str
    \/ /\ catalog.loaded_as[i].course_level_str = catalog.loaded_as[j].course_level_str
       /\ i < j

Min(a, b) == IF a < b THEN a ELSE b

(* C22: the recommendations are the selected courses in ascending level    *)
(* order, courses of equal level in their load order, cut to the first     *)
(* limit of them; on a catalog with levels 2, 1, 1 whose courses all pass  *)
(* the path filter, limit 2 returns the two level-1 courses in load order. *)
C22_SortedStableTruncated ==
    (recCall.op = "recommend" /\ recCall.limit >= 0) =>
        /\ \A k \in 1..Len(recResult) : recResult[k].course_id \in Selected
        /\ \A k, l \in 1..Len(recResult) :
              k < l => Before(recResult[k].course_id, recResult[l].course_id)
        /\ Len(recResult) = Min(recCall.limit, Cardinality(Selected))
        /\ \A k \in 1..Len(recResult) :
              \A j \in Selected \ {recResult[l].course_id : l \in 1..Len(recResult)} :
                 Before(recResult[k].course_id, j)
        /\ (/\ [i \in 1..Len(catalog.loaded_as) |-> catalog.loaded_as[i].course_level_str]
                  = <<2, 1, 1>>
            /\ recCall.learning_path_name # <<>>
            /\ recCall.course_level = 0
            /\ Cardinality(Selected) = 3
            /\ recCall.limit = 2) => IdsOf(recResult) = <<2, 3>>

(* levels 2, 1, 1, a path filter every course passes, limit 2 *)
C22_Witness ==
    /\ recCall.op = "recommend"
    /\ [i \in 1..Len(catalog.loaded_as) |-> catalog.loaded_as[i].course_level_str] = <<2, 1, 1>>
    /\ recCall.learning_path_name # <<>>
    /\ recCall.course_level = 0
    /\ Cardinality(Selected) = 3
    /\ recCall.limit = 2
    /\ IdsOf(recResult) = <<2, 3>>

(* C23: the cached course list keeps the elements and the order it was     *)
(* loaded with, whatever recommend calls and context builds have run.      *)
C23_CatalogImmutable ==
    catalog.loaded => catalog.courses = catalog.loaded_as

(* C29: the recommendation context lists the first min(20, n) courses of   *)
(* the catalog in load order, whatever recommend calls came before.        *)
C29_ContextInLoadOrder ==
    recCall.op = "context" =>
        IdsOf(recResult) = [i \in 1..Min(ContextLimit, Len(catalog.loaded_as)) |-> i]

(***************************************************************************)
(* SpecTracking: one worker process serves requests one after the other    *)
(* while the progress API's data changes between them.                     *)
(***************************************************************************)
(* the user's progress at the API changes *)
SourceChanges ==
    /\ \A p \in Workers : pc[p] = "idle"
    /\ apiData = "v1"
    /\ apiData' = "v2"
    /\ UNCHANGED <<files, now, reqVars, tracker, appended, clientVars, harnessVars>>

NextTracking ==
    \/ Receive("w1")
    \/ classify_query("w1")
    \/ get_tracker("w1")
    \/ BuildContext("w1")
    \/ AskAnswer("w1")
    \/ SaveExists("w1")
    \/ SaveRead("w1")
    \/ SaveStamp("w1")
    \/ SaveWrite("w1")
    \/ Return("w1")
    \/ SourceChanges

SpecTracking == Init /\ [][NextTracking]_vars

(* the request of p ended because fetching the progress failed *)
FetchFailed(p) ==
    /\ pc[p] = "failed"
    /\ query_type[p] = "tracking"
    /\ events[p] # <<>>
    /\ Last(events[p]) = "fetch_progress"

(* C24: a tracking request whose progress fetch fails ends with that error *)
(* at once: it makes no answer LLM call and appends nothing, the tracker   *)
(* stays unbuilt, and a tracking request that finds the tracker unbuilt    *)
(* attempts the fetch.                                                     *)
C24_FetchFailureAborts ==
    [][\A p \in Workers :
          /\ (pc[p] = "get_tracker" /\ pc'[p] = "failed") =>
                /\ error'[p] \in FetchErrors
                /\ ~tracker'[p].loaded
                /\ files' = files /\ appended' = appended
                /\ ~Has(events'[p], "answer_llm")
                /\ ~Has(events'[p], "append")
          /\ FetchFailed(p) =>
                /\ files' = files /\ appended' = appended
                /\ pc'[p] \in {"failed", "idle"}
                /\ events'[p] \in {events[p], <<>>}
          /\ (pc[p] = "get_tracker" /\ ~tracker[p].loaded /\ pc'[p] # pc[p]) =>
                Last(events'[p]) = "fetch_progress"]_vars

(* the second request, one with a session id, was aborted because the API  *)
(* could not be reached                                                    *)
C24_Witness ==
    /\ FetchFailed("w1")
    /\ Truthy(session_id["w1"])
    /\ query["w1"] > 1
    /\ ~tracker["w1"].loaded
    /\ error["w1"] = "ConnectionError"

(* C25: every tracking request whose context has been built fetched the    *)
(* progress during the request, and its context holds the data the API     *)
(* serves at the time of the request.                                      *)
C25_LiveProgressEveryRequest ==
    \A p \in Workers :
        (query_type[p] = "tracking" /\ handler[p] = "progress") =>
            /\ Has(events[p], "fetch_progress")
            /\ context[p] = apiData

(***************************************************************************)
(* tracking.py get_progress_context: the statistics block of the tracking  *)
(* context, computed from the progress of the user's courses.              *)
(***************************************************************************)
(* progress values of a course (int percent), and the course lists used.   *)
(* For these values the float arithmetic of the code gives the exact       *)
(* quotient's rounding (it does not for every list: a remaining total of   *)
(* 115 over two courses gives 115/200*100 = 57.49999999999999).            *)
ProgressValues == {0, 25, 40, 75, 100}
ProgressData == UNION {[1..n -> ProgressValues] : n \in 0..MaxCourses}

RECURSIVE Sum(_)
Sum(xs) == IF xs = <<>> THEN 0 ELSE xs[1] + Sum(Tail(xs))

(* num/den rounded to an integer, halves to the even neighbour *)
RoundHalfEven(num, den) ==
    LET fl == num \div den
        twice == 2 * (num - fl * den)
    IN IF twice > den THEN fl + 1
       ELSE IF twice < den THEN fl
       ELSE IF fl % 2 = 0 THEN fl ELSE fl + 1

Format1f(num, den) ==
    LET tenths == RoundHalfEven(10 * num, den)
    IN [whole |-> tenths \div 10, frac |-> <<tenths % 10>>]

(* f"{num/den:.0f}": no digit after the point *)
Format0f(num, den) == [whole |-> RoundHalfEven(num, den), frac |-> <<>>]

NotStartedCountsZeros(courses, completed, in_progress) ==
    Cardinality({i \in 1..Len(courses) : courses[i] = 0}) + (IF completed > 0 THEN 1 ELSE 0)

(* not_started = total_courses - completed_courses - len(in_progress) *)
NotStarted(courses, completed, in_progress) == Len(courses) - completed - in_progress

(* the numbers printed under STATISTIK UTAMA *)
get_progress_context(courses) ==
    LET total_courses == Len(courses)
        completed_courses == Cardinality({i \in 1..Len(courses) : courses[i] = 100})
        in_progress_courses ==
            Cardinality({i \in 1..Len(courses) : 0 < courses[i] /\ courses[i] < 100})
        remaining_progress == Sum([i \in 1..Len(courses) |-> 100 - courses[i]])
    IN [built |-> TRUE,
        courses |-> courses,
        total_courses |-> total_courses,
        completed_courses |-> completed_courses,
        in_progress_courses |-> in_progress_courses,
        not_started |-> NotStarted(courses, completed_courses, in_progress_courses),
        avg_progress |-> IF total_courses > 0
                         THEN Format0f(Sum(courses), total_courses)
                         ELSE Format0f(0, 1),
        remaining_percent |-> IF total_courses > 0
                              THEN Format0f(remaining_progress, total_courses)
                              ELSE Format0f(0, 1)]

(* a tracker holding the fetched courses builds its context *)
ProgressContext ==
    /\ \E courses \in ProgressData : report' = get_progress_context(courses)
    /\ UNCHANGED <<files, now, apiData, reqVars, tracker, appended, clientVars,
                   response, classified, rendered, llm, catalogVars, promptVars>>

SpecProgress == Init /\ [][ProgressContext]_vars

(* the scenario's data *)
ScenarioProgress == <<100, 40, 0>>

(* C26 as stated: for courses at 100, 40 and 0 the context reports 1       *)
(* completed, 1 in progress, 1 not started, average progress 46.7% and     *)
(* remaining progress 53.3%; the three counts always add up to the total.  *)
C26_ScenarioOneDecimal ==
    report.built =>
        /\ report.courses = ScenarioProgress =>
              /\ report.completed_courses = 1
              /\ report.in_progress_courses = 1
              /\ report.not_started = 1
              /\ report.avg_progress = [whole |-> 46, frac |-> <<7>>]
              /\ report.remaining_percent = [whole |-> 53, frac |-> <<3>>]
        /\ report.completed_courses + report.in_progress_courses + report.not_started
              = report.total_courses

(* C26: for courses at 100, 40 and 0 the context reports 1 completed, 1 in *)
(* progress and 1 not started, average progress 47% and remaining progress *)
(* 53% (whole percents); for every course list with progress in 0..100 the *)
(* three counts add up to the total, and not-started counts the courses at *)
(* progress 0.                                                             *)
C26_ProgressStatistics ==
    report.built =>
        /\ report.courses = ScenarioProgress =>
              /\ report.completed_courses = 1
              /\ report.in_progress_courses = 1
              /\ report.not_started = 1
              /\ report.avg_progress = [whole |-> 47, frac |-> <<>>]
              /\ report.remaining_percent = [whole |-> 53, frac |-> <<>>]
        /\ report.completed_courses + report.in_progress_courses + report.not_started
              = report.total_courses
        /\ report.total_courses = Len(report.courses)
        /\ report.not_started
              = Cardinality({i \in 1..Len(report.courses) : report.courses[i] = 0})

(* the context of the scenario's data was built *)
C26_Witness ==
    /\ report.built
    /\ report.courses = ScenarioProgress
    /\ report.avg_progress.whole = 47

(***************************************************************************)
(* SpecSessions: two workers append turns step by step while sessions are  *)
(* read and deleted by other callers.  The window a worker reads for its   *)
(* prompt is the read behind get_conversation_context (render).            *)
(***************************************************************************)
NextSessions ==
    \/ \E p \in Workers : Answered(p)
    \/ \E p \in Workers : SaveExists(p)
    \/ \E p \in Workers : SaveRead(p)
    \/ \E p \in Workers : SaveStamp(p)
    \/ \E p \in Workers : SaveWrite(p)
    \/ \E p \in Workers : Return(p)
    \/ \E sid \in SessionIds : StoreRead(sid, NoLimit)
    \/ \E sid \in SessionIds : ClearSession(sid)

SpecSessions == Init /\ [][NextSessions]_vars

(* the sessions whose record a step changed *)
Changed == {sid \in FileIds : files'[sid] # files[sid]}

(* C27: a step of an operation on one session leaves the record of every   *)
(* other session as it was: a worker's step changes no record but that of  *)
(* its request's session, a read changes none, and no step changes two.    *)
C27_SessionsIndependent ==
    [][/\ Cardinality(Changed) <= 1
       /\ \A p \in Workers :
             pc'[p] # pc[p] => Changed \subseteq {session_id[p], session_id'[p]} \ {NoSession}
       /\ ops' # ops => Changed = {}
       /\ \A sid \in Changed :
             \/ files'[sid] = NoFile
             \/ \E p \in Workers :
                   /\ pc[p] = "write" /\ session_id[p] = sid
                   /\ files'[sid] = history[p]
                   /\ history[p].session_id = sid]_vars

(* two requests in flight at once appended to different sessions, and a    *)
(* read of s1 came after both: each record holds its own turn only         *)
C27_Witness ==
    /\ pc["w1"] = "done" /\ session_id["w1"] = "s1"
    /\ pc["w2"] = "done" /\ session_id["w2"] = "s2"
    /\ Len(files["s1"].messages) = 1 /\ files["s1"].messages[1].query = query["w1"]
    /\ Len(files["s2"].messages) = 1 /\ files["s2"].messages[1].query = query["w2"]
    /\ lastOp = "read" /\ lastArgs.sid = "s1"
    /\ lastResult.messages = files["s1"].messages

(* the number of turns a rendered transcript holds: two lines per turn     *)
(* between the header and the footer                                       *)
TurnsRendered == IF rendered.parts = <<>> THEN 0 ELSE (Len(rendered.parts) - 2) \div 2

(* C28: a transcript rendered with last_n >= 0 holds at most last_n turns, *)
(* and they are the session's most recent turns, oldest first.             *)
C28_RenderShowsLastN ==
    lastOp = "render" =>
        LET sid == lastArgs.sid
            last_n == lastArgs.limit[1]
            recent == LastK(appended[sid], Min(last_n, Len(appended[sid])))
        IN /\ TurnsRendered <= last_n
           /\ TurnsRendered = Len(recent)
           /\ \A i \in 1..Len(recent) :
                 rendered.parts[2 * i] = UserPrefix \o <<ToString(recent[i].query)>>

(***************************************************************************)
(* SpecWindow: requests served one after the other, each of them answered  *)
(* and saved, on sessions that are not deleted.                            *)
(***************************************************************************)
(* one classifier reply per category *)
WindowReplies == {<<KwTracking>>, <<KwRecommendation>>, <<KwLearning>>}

(* smart_answer from entry to return for a request with a session id that  *)
(* succeeds at every step: classification, progress fetch if the tracker   *)
(* is not built, window, context, answer, save_message                     *)
Turn(p) ==
    /\ pc[p] = "idle"
    /\ started < MaxTurns
    /\ started' = started + 1
    /\ \E sid \in SessionIds, parts \in WindowReplies, a \in Answers :
          LET qt == ParseResponse(Concat(parts))
              fetch == qt = "tracking" /\ ~tracker[p].loaded
          IN /\ query' = [query EXCEPT ![p] = started + 1]
             /\ session_id' = [session_id EXCEPT ![p] = sid]
             /\ query_type' = [query_type EXCEPT ![p] = qt]
             /\ answer' = [answer EXCEPT ![p] = a]
             /\ handler' = [handler EXCEPT ![p] = Handler(qt)]
             /\ tracker' = IF fetch
                           THEN [tracker EXCEPT ![p] = [loaded |-> TRUE, data |-> apiData]]
                           ELSE tracker
             /\ window' = [window EXCEPT ![p] = ConversationWindow(files, sid)]
             /\ context' = [context EXCEPT ![p] = ContextData(qt, tracker'[p])]
             /\ files' = save_message(files, sid, started + 1, a, qt, now)
             /\ appended' = [appended EXCEPT ![sid] =
                                Append(@, Message(now, started + 1, a, qt))]
             /\ Log(p, <<"classify_llm">>
                       \o (IF fetch THEN <<"fetch_progress">> ELSE <<>>)
                       \o <<"window">>
                       \o (IF Handler(qt) # "none" THEN <<"context">> ELSE <<>>)
                       \o <<"answer_llm", "append">>)
             /\ pc' = [pc EXCEPT ![p] = "done"]
    /\ UNCHANGED <<now, apiData, history, error, clientVars, response, classified,
                   rendered, llm, catalogVars, progressVars>>

NextWindow ==
    \/ Turn("w1")
    \/ Return("w1")

SpecWindow == Init /\ [][NextWindow]_vars

SpecLlmLive == Init /\ [][NextLlm]_vars /\ WF_vars(NextLlm)

Terminated == llm.pc \in {"returned", "raised"}

(* ask_llm, once entered, returns a text or raises *)
LlmTerminates == (llm.pc = "loop") ~> Terminated

(* an ask_llm call that has ended gave a text or an error, not both *)
EndsOneWay ==
    Terminated =>
        /\ llm.pc = "returned" => (llm.returned \in Answers /\ llm.raised = "none")
        /\ llm.pc = "raised" => (llm.raised # "none" /\ llm.returned = "none")

(* no sleep follows the failure of attempt max_retries - 1, the final one *)
NoSleepAfterFinalAttempt ==
    /\ \A i \in 1..Len(llm.log) :
          llm.log[i].ev = "sleep" => llm.log[i].attempt < llm.max_retries - 1
    /\ Terminated => (llm.log = <<>> \/ Last(llm.log).ev = "call")

(* C31 as stated: for every max_retries >= 0 ask_llm terminates with an    *)
(* answer or an error after at most max_retries backend calls and at most  *)
(* max_retries - 1 sleeps, and never sleeps after the final attempt.       *)
C31_AtMostRetriesMinusOneSleeps ==
    /\ [](llm.pc # "idle" =>
            /\ Len(CallsOf(llm.log)) <= llm.max_retries
            /\ Len(SleepsOf(llm.log)) <= llm.max_retries - 1
            /\ NoSleepAfterFinalAttempt
            /\ EndsOneWay)
    /\ LlmTerminates

(* C31: for every max_retries >= 0 ask_llm terminates with an answer or an *)
(* error after at most max_retries backend calls and at most               *)
(* max(0, max_retries - 1) sleeps (none for max_retries = 0, where it      *)
(* raises without a call), and never sleeps after the final attempt.       *)
C31_BoundedCallsAndSleeps ==
    /\ [](llm.pc # "idle" =>
            /\ Len(CallsOf(llm.log)) <= llm.max_retries
            /\ Len(SleepsOf(llm.log))
                  <= (IF llm.max_retries >= 1 THEN llm.max_retries - 1 ELSE 0)
            /\ NoSleepAfterFinalAttempt
            /\ EndsOneWay)
    /\ LlmTerminates

(* every attempt of a call with the largest max_retries failed: as many    *)
(* calls as max_retries, one sleep fewer, then the error                   *)
C31_Witness ==
    /\ llm.pc = "raised"
    /\ llm.max_retries = MaxRetries
    /\ Len(CallsOf(llm.log)) = MaxRetries
    /\ Len(SleepsOf(llm.log)) = MaxRetries - 1

(* the messages appended to the session since it was last deleted *)
AppendedSinceDelete(sid) == {appended[sid][i] : i \in 1..Len(appended[sid])}

(* C32: a delete that returned true takes the session's messages out of    *)
(* the store for good: once the appends in flight on the session have      *)
(* completed, the record holds no message from before the delete.          *)
C32_DeletedStayDeleted ==
    \A sid \in SessionIds :
        (Quiescent(sid) /\ files[sid].exists) =>
            \A i \in 1..Len(files[sid].messages) :
                files[sid].messages[i] \in AppendedSinceDelete(sid)

(***************************************************************************)
(* main.py clear_all_history (DELETE /history): every session that         *)
(* list_sessions gives is deleted by the id its record carries.            *)
(***************************************************************************)
RECURSIVE ClearEachButLast(_, _)
ClearEachButLast(fs, sessions) ==
    IF Len(sessions) <= 1 THEN [files |-> fs, deleted_count |-> Len(sessions)]
    ELSE LET r == clear_session(fs, Head(sessions).session_id)
             rest == ClearEachButLast(r.files, Tail(sessions))
         IN [files |-> rest.files,
             deleted_count |-> rest.deleted_count + (IF r.deleted THEN 1 ELSE 0)]

(* for session in sessions: if clear_session(session["session_id"]):       *)
(* deleted_count += 1                                                      *)
RECURSIVE ClearEach(_, _)
ClearEach(fs, sessions) ==
    IF sessions = <<>> THEN [files |-> fs, deleted_count |-> 0]
    ELSE LET r == clear_session(fs, Head(sessions).session_id)
             rest == ClearEach(r.files, Tail(sessions))
         IN [files |-> rest.files,
             deleted_count |-> rest.deleted_count + (IF r.deleted THEN 1 ELSE 0)]

(* clear_all_history for one glob order: [files after, status, count];     *)
(* an exception of list_sessions is answered 500                           *)
clear_all_history(fs, order) ==
    LET sessions == list_sessions(fs, order)
    IN IF sessions.error # "none"
       THEN [files |-> fs, status |-> 500, deleted_count |-> 0]
       ELSE LET r == ClearEach(fs, sessions.sessions)
            IN [files |-> r.files, status |-> 200, deleted_count |-> r.deleted_count]

(* DELETE /history *)
StoreClearAll ==
    /\ ops < MaxOps
    /\ \E order \in Glob(files) :
          LET r == clear_all_history(files, order)
          IN /\ files' = r.files
             /\ http' = r.status
             /\ deleted_count' = r.deleted_count
             /\ appended' = [f \in FileIds |->
                                IF r.files[f].exists THEN appended[f] ELSE <<>>]
    /\ lastOp' = "clear_all"
    /\ lastArgs' = NoArgs
    /\ lastResult' = NoResult
    /\ ops' = ops + 1
    /\ UNCHANGED <<now, apiData, reqVars, tracker, listed, harnessVars>>

(***************************************************************************)
(* SpecBulk: one client appends turns, lists the sessions and deletes them *)
(* all, one call after the other.                                          *)
(***************************************************************************)
NextBulk ==
    \/ \E sid \in SessionIds, a \in Answers, ty \in StoreTypes :
          StoreAppend(sid, a, ty)
    \/ StoreList
    \/ StoreClearAll
    \/ Tick

SpecBulk == Init /\ [][NextBulk]_vars

Stored(fs) == {f \in FileIds : fs[f].exists}

(* C33: a bulk deletion succeeds, leaves no session in the store and       *)
(* reports as deleted_count the number of sessions stored, which is the    *)
(* number a list call just before it returned; a list call just after it   *)
(* returns the empty sequence.                                             *)
C33_ClearAllRemovesListed ==
    [][ ops' = ops + 1 =>
          /\ lastOp' = "clear_all" =>
                /\ http' = 200
                /\ Stored(files') = {}
                /\ deleted_count' = Cardinality(Stored(files))
                /\ lastOp = "list" =>
                      /\ ListedIds(listed) = Stored(files)
                      /\ deleted_count' = Len(listed.sessions)
          /\ (lastOp = "clear_all" /\ lastOp' = "list") =>
                /\ listed'.error = "none"
                /\ listed'.sessions = <<>> ]_vars

(* two sessions were stored and listed, and the bulk deletion that came    *)
(* next reported two and left none                                         *)
C33_Witness ==
    /\ lastOp = "clear_all"
    /\ Len(listed.sessions) = 2
    /\ deleted_count = 2
    /\ http = 200
    /\ Stored(files) = {}

====
